---- MODULE Spec2Model ----
(***************************************************************************)
(* django-dataclass-models: the relationship registry (ForeignRegistry),   *)
(* the metaclass that rewrites annotated class dictionaries                *)
(* (TypedModelBase.__new__) and the readiness check                        *)
(* (reverse_foreign_key_warning).                                          *)
(***************************************************************************)
EXTENDS Integers, Sequences, FiniteSets, TLC

VARIABLES
    registry,    \* ForeignRegistry._registry: key -> reverse_created of the object
    all_models,  \* apps.all_models: app label, class name, whether a TypedModel subclass
    classes,     \* class name -> annotations and class dictionary of the created class
    errors,      \* what reverse_foreign_key_warning last returned
    last,        \* the last call: operation, exception, arguments
    ncalls,      \* number of direct registry calls so far
    nclasses     \* number of class statements so far

vars == <<registry, all_models, classes, errors, last, ncalls, nclasses>>

(***************************************************************************)
(* Bounds of the model.                                                    *)
(***************************************************************************)
MaxCalls == 3
MaxClasses == 2

Models == {"A", "B"}

\* Python's None, as the value of fieldB / related_name / a missing dict entry.
None == "<None>"

(***************************************************************************)
(* foreign_key_typing.py: ForeignRegistry                                  *)
(***************************************************************************)
ONE_TO_ONE == "OneToOne"
ONE_TO_MANY == "OneToMany"
MANY_TO_ONE == "ManyToOne"
MANY_TO_MANY == "ManyToMany"

valid_mode == {ONE_TO_ONE, ONE_TO_MANY, MANY_TO_ONE, MANY_TO_MANY}

\* Exceptions a call can end with; NoExc is normal return.
NoExc == "none"
ValueError == "ValueError"
RecursionError == "RecursionError"
NotImplementedError == "NotImplementedError"

\* str.lower() on the model names of the model.
Lower(name) ==
    CASE name = "A" -> "a"
      [] name = "B" -> "b"
      [] OTHER -> name

\* issubclass(a, b) over the field classes the registry looks at.
IsSubclass(a, b) ==
    \/ a = b
    \/ a = "OneToOneField" /\ b = "ForeignKey"

\* field_type_to_mode: the first matching issubclass test wins.
field_type_to_mode(field_type) ==
    IF IsSubclass(field_type, "ForeignKey") THEN MANY_TO_ONE
    ELSE IF IsSubclass(field_type, "ManyToManyField") THEN MANY_TO_MANY
    ELSE IF IsSubclass(field_type, "OneToOneField") THEN ONE_TO_ONE
    ELSE IF IsSubclass(field_type, "OneToManyFieldStandIn") THEN ONE_TO_MANY
    ELSE ValueError

\* flip_mode that returns its argument.
flip_mode_same(mode) ==
    IF mode \in valid_mode THEN mode ELSE ValueError

\* flip_mode whose first case matches every mode.
flip_mode_first_case(mode) ==
    ONE_TO_ONE

\* flip_mode: ValueError for anything but the four modes.
flip_mode(mode) ==
    CASE mode = ONE_TO_ONE -> ONE_TO_ONE
      [] mode = ONE_TO_MANY -> MANY_TO_ONE
      [] mode = MANY_TO_ONE -> ONE_TO_MANY
      [] mode = MANY_TO_MANY -> MANY_TO_MANY
      [] OTHER -> ValueError

\* str_to_mode: the string itself when it is one of the four, else ValueError.
str_to_mode(mode) ==
    IF mode \in valid_mode THEN mode ELSE ValueError

\* The values __init__ accepts as mode: a str, a class (type), an instance of
\* a RelatedBase subclass (named by its class), a generic alias (named by its
\* origin class).
ModeStr(s) == [tag |-> "str", name |-> s]
ModeType(t) == [tag |-> "type", name |-> t]
ModeRelated(c) == [tag |-> "RelatedBase", name |-> c]
ModeAlias(o) == [tag |-> "alias", name |-> o]

\* Lines 258-265 of __init__: the mode as a string, or ValueError.
ConvertMode(mode) ==
    CASE mode.tag = "type" -> field_type_to_mode(mode.name)
      [] mode.tag = "RelatedBase" -> str_to_mode(mode.name)
      [] mode.tag = "alias" -> str_to_mode(mode.name)
      [] OTHER -> mode.name

\* Lines 266-274 of __init__ with the "_set" suffix for every mode.
InferFieldBAlwaysSet(mode, modelA, fieldB) ==
    IF fieldB # None THEN fieldB
    ELSE IF mode \in {ONE_TO_ONE, ONE_TO_MANY, MANY_TO_ONE, MANY_TO_MANY}
         THEN Lower(modelA) \o "_set"
    ELSE None

\* Lines 266-274 of __init__: the related name inferred when none is given.
InferFieldB(mode, modelA, fieldB) ==
    IF fieldB # None THEN fieldB
    ELSE IF mode = ONE_TO_ONE THEN Lower(modelA)
    ELSE IF mode \in {ONE_TO_MANY, MANY_TO_ONE, MANY_TO_MANY}
         THEN Lower(modelA) \o "_set"
    ELSE None

\* A relationship object: its five fields; reverse_created lives in the
\* registry, which maps the key of each stored object to its flag.
Rel(mode, modelA, modelB, fieldA, fieldB) ==
    [mode |-> mode, modelA |-> modelA, modelB |-> modelB,
     fieldA |-> fieldA, fieldB |-> fieldB]

\* The key of no object.
NoKey == << >>

\* get_key with fieldB None: building the message of its ValueError calls
\* get_key again, so the call ends in RecursionError, never in ValueError.
get_key_exc(self) ==
    IF self.fieldB = None THEN RecursionError ELSE NoExc

\* get_key, when it returns.
get_key(self) ==
    <<self.mode, self.modelA, self.modelB, self.fieldA, self.fieldB>>

\* get_reverse_key, when flip_mode returns.
get_reverse_key(self) ==
    <<flip_mode(self.mode), self.modelB, self.modelA, self.fieldB, self.fieldA>>

\* dict assignment: add or replace one entry.
Put(reg, key, flag) ==
    [k \in DOMAIN reg \cup {key} |-> IF k = key THEN flag ELSE reg[k]]

\* check_for_reverse that leaves the flag of the reverse object alone.
check_for_reverse_forgets(reg, self) ==
    LET key == get_key(self)
        rkey == get_reverse_key(self)
    IN  IF flip_mode(self.mode) = ValueError THEN [reg |-> reg, exc |-> ValueError]
        ELSE IF rkey \in DOMAIN reg
        THEN LET reg1 == Put(reg, key, TRUE)
             IN  IF reg1[rkey] = TRUE
                 THEN [reg |-> reg1, exc |-> ValueError]
                 ELSE [reg |-> reg1, exc |-> NoExc]
        ELSE [reg |-> reg, exc |-> NoExc]

\* check_for_reverse, run on the object already stored under its key.
check_for_reverse(reg, self) ==
    LET key == get_key(self)
        rkey == get_reverse_key(self)
    IN  IF flip_mode(self.mode) = ValueError THEN [reg |-> reg, exc |-> ValueError]
        ELSE IF rkey \in DOMAIN reg
        THEN LET reg1 == Put(reg, key, TRUE)
             IN  IF reg1[rkey] = TRUE
                 THEN [reg |-> reg1, exc |-> ValueError]
                 ELSE [reg |-> Put(reg1, rkey, TRUE), exc |-> NoExc]
        ELSE [reg |-> reg, exc |-> NoExc]

\* ForeignRegistry.__init__: the registry after the call, the exception it
\* ends with, the key of the constructed object (NoKey when the call ends
\* before the object has a key), the mode the call settled on and the
\* reverse_created flag of the constructed object.
ForeignRegistryInit(reg, mode, modelA, modelB, fieldA, fieldB) ==
    LET m == ConvertMode(mode)
        self == Rel(m, modelA, modelB, fieldA, InferFieldB(m, modelA, fieldB))
        key == get_key(self)
    IN  IF mode.tag # "str" /\ m = ValueError
        THEN [reg |-> reg, exc |-> ValueError, key |-> NoKey, mode |-> m,
              reverse_created |-> FALSE]
        ELSE IF get_key_exc(self) # NoExc
        THEN [reg |-> reg, exc |-> get_key_exc(self), key |-> NoKey, mode |-> m,
              reverse_created |-> FALSE]
        ELSE LET r == check_for_reverse(Put(reg, key, FALSE), self)
             IN  [reg |-> r.reg, exc |-> r.exc, key |-> key, mode |-> m,
                  reverse_created |-> r.reg[key]]

\* all_relationships_resolved: the keys of the unresolved objects.
all_relationships_resolved(reg) ==
    {k \in DOMAIN reg : reg[k] = FALSE}

\* check_model_valid(model)
check_model_valid(reg, model) ==
    {k \in DOMAIN reg : k[3] = model /\ reg[k] = FALSE}

\* The cardinality flags that are True on a field class (of one_to_one,
\* one_to_many, many_to_many, many_to_one); a class that is no relation has
\* none of them True.
FieldFlags(cls) ==
    CASE cls = "ForeignKey" -> {"many_to_one"}
      [] cls = "OneToOneField" -> {"one_to_one"}
      [] cls = "ManyToManyField" -> {"many_to_many"}
      [] cls = "OneToManyFieldStandIn" -> {"one_to_many", "many_to_one"}
      [] OTHER -> {}

\* A field object: its class and the keyword arguments it was built with.
Field(cls, kwargs) == [t |-> "field", cls |-> cls, kwargs |-> kwargs]

\* A relation field object built with to and, unless None, related_name.
FieldObject(cls, to, related_name) ==
    Field(cls, IF related_name = None THEN ("to" :> to)
               ELSE ("to" :> to) @@ ("related_name" :> related_name))

\* field.remote_field.model, as a name (a class gives its __name__)
RemoteModel(field) == field.kwargs["to"]

\* field.remote_field.related_name
RemoteRelatedName(field) ==
    IF "related_name" \in DOMAIN field.kwargs THEN field.kwargs["related_name"]
    ELSE None

\* Lines 232-241 of register_field_object: the mode read off the flags.
FlagsToMode(flags) ==
    IF "many_to_many" \in flags THEN MANY_TO_MANY
    ELSE IF "one_to_one" \in flags THEN ONE_TO_ONE
    ELSE IF "one_to_many" \in flags THEN ONE_TO_MANY
    ELSE IF "many_to_one" \in flags THEN MANY_TO_ONE
    ELSE ValueError

\* register_field_object(model_name, field_name, field)
register_field_object(reg, model_name, field_name, field) ==
    LET mode == FlagsToMode(FieldFlags(field.cls))
    IN  IF mode = ValueError
        THEN [reg |-> reg, exc |-> ValueError, key |-> NoKey, mode |-> mode,
              reverse_created |-> FALSE]
        ELSE ForeignRegistryInit(reg, ModeStr(mode), model_name, RemoteModel(field),
                                 field_name, RemoteRelatedName(field))

(***************************************************************************)
(* models.py: FieldLookup, FieldTypeRegistry, TypedModelBase               *)
(***************************************************************************)
\* Values of a class dictionary entry: no entry, a str, a field object
\* (Field above), any other object (with its truth value), the _Nullify
\* sentinel.
Absent == [t |-> "absent"]
StrVal(s) == [t |-> "str", s |-> s]
ObjVal(truthy) == [t |-> "object", truthy |-> truthy]
Nullify == [t |-> "_Nullify"]

\* Annotations.  A class that is no model; a Model subclass; a name (str);
\* typing.Self; ManyToOne[..] and OneToOne[..] (RelatedBase instances);
\* generic aliases ManyToMany[..], OneToMany[..], GenericManager[..] and
\* others (list[int], by origin); Annotated[..] by the kind of its metadata;
\* a union of such with or without None.
AnnClass(name) == [form |-> "class", name |-> name]
AnnModel(name) == [form |-> "model", name |-> name]
AnnName(name) == [form |-> "name", name |-> name]
AnnSelf == [form |-> "Self", name |-> "Self"]
AnnRelated(cls, item) == [form |-> cls, name |-> item]
AnnAlias(origin) == [form |-> "alias", name |-> origin]
AnnAnnotated(metadata) == [form |-> "Annotated", name |-> metadata]
AnnUnion(members, none) == [form |-> "union", members |-> members, none |-> none]

\* An annotated attribute of a class body: its name as a sequence of
\* characters, its annotation and the value assigned to it (Absent if none).
Decl(variable, annotation, value) ==
    [variable |-> variable, annotation |-> annotation, value |-> value]

LowerCaseLetters ==
    {"a", "b", "c", "d", "e", "f", "g", "h", "i", "j", "k", "l", "m",
     "n", "o", "p", "q", "r", "s", "t", "u", "v", "w", "x", "y", "z"}

\* is_snake_case that accepts every name.
is_snake_case_any(name) == TRUE

\* is_snake_case: only lower case letters and underscores.
is_snake_case(name) ==
    \A i \in 1..Len(name) : name[i] \in LowerCaseLetters \/ name[i] = "_"

\* The str of a name given by its characters.
RECURSIVE Text(_)
Text(name) == IF name = << >> THEN "" ELSE name[1] \o Text(Tail(name))

\* fix_self on a name: Self becomes "self".
fix_self(name) == IF name = "Self" THEN "self" ELSE name

\* FieldLookup(field, default_key, **kwargs)
FieldLookup(field, default_key, kwargs) ==
    [field |-> field, default_key |-> default_key, default_kwargs |-> kwargs]

NoKwargs == << >>

\* FieldLookup.item that sets null on every field.
item_always_null(lookup, default, null) ==
    Field(lookup.field,
          (IF default # None /\ default # ""
           THEN (lookup.default_key :> default) ELSE NoKwargs)
          @@ ("null" :> "True")
          @@ lookup.default_kwargs)

\* FieldLookup.item(default, null): later keys override the defaults.
item(lookup, default, null) ==
    Field(lookup.field,
          (IF default # None /\ default # ""
           THEN (lookup.default_key :> default) ELSE NoKwargs)
          @@ (IF null THEN ("null" :> "True") ELSE NoKwargs)
          @@ lookup.default_kwargs)

\* types_to_fields, the initial lookup_registry.
LookupTypes ==
    {"str", "int", "float", "bool", "datetime", "date", "time", "timedelta",
     "Decimal", "list", "dict", "bytes"}

types_to_fields(type) ==
    CASE type = "str" -> FieldLookup("CharField", "default", "max_length" :> "255")
      [] type = "int" -> FieldLookup("IntegerField", "default", NoKwargs)
      [] type = "float" -> FieldLookup("FloatField", "default", NoKwargs)
      [] type = "bool" -> FieldLookup("BooleanField", "default", NoKwargs)
      [] type = "datetime" -> FieldLookup("DateTimeField", "default", NoKwargs)
      [] type = "date" -> FieldLookup("DateField", "default", NoKwargs)
      [] type = "time" -> FieldLookup("TimeField", "default", NoKwargs)
      [] type = "timedelta" -> FieldLookup("DurationField", "default", NoKwargs)
      [] type = "Decimal" ->
            FieldLookup("DecimalField", "default",
                        ("max_digits" :> "10") @@ ("decimal_places" :> "2"))
      [] type = "list" -> FieldLookup("JSONField", "default", NoKwargs)
      [] type = "dict" -> FieldLookup("JSONField", "default", NoKwargs)
      [] type = "bytes" -> FieldLookup("BinaryField", "default", NoKwargs)

\* No FieldLookup (None).
NoLookup == [field |-> None]

\* The FieldLookup carried by an Annotated type, by the kind of its metadata:
\* one FieldLookup (text, slug), a Field class with a dict, anything else.
AnnotatedLookup(metadata) ==
    CASE metadata = "text" ->
            [exc |-> NoExc, lookup |-> FieldLookup("TextField", "default", NoKwargs)]
      [] metadata = "slug" ->
            [exc |-> NoExc,
             lookup |-> FieldLookup("SlugField", "default", "max_length" :> "255")]
      [] metadata = "field_dict" ->
            [exc |-> NoExc,
             lookup |-> FieldLookup("CharField", "default", "max_length" :> "10")]
      [] OTHER -> [exc |-> ValueError, lookup |-> NoLookup]

\* get_django_lookup(field_type): a FieldLookup, None, or an exception.
get_django_lookup(field_type) ==
    LET ft == IF field_type.form \in {"Self", "model", "name"}
              THEN AnnRelated("ManyToOne", fix_self(field_type.name))
              ELSE field_type
        is_generic_alias ==
            ft.form \in {"ManyToMany", "OneToMany", "GenericManager", "alias",
                         "Annotated"}
        is_annotated_type == ft.form = "Annotated"
        plain == IF is_generic_alias /\ ~is_annotated_type
                 THEN (IF ft.form = "alias" THEN ft.name ELSE ft.form)
                 ELSE ft.name
    IN  CASE ft.form = "ManyToOne" ->
                [exc |-> NoExc,
                 lookup |-> FieldLookup("ForeignKey", "related_name",
                                ("on_delete" :> "CASCADE") @@ ("to" :> fix_self(ft.name)))]
          [] ft.form = "OneToOne" ->
                [exc |-> NoExc,
                 lookup |-> FieldLookup("OneToOneField", "related_name",
                                ("to" :> fix_self(ft.name)) @@ ("on_delete" :> "CASCADE"))]
          [] ft.form = "ManyToMany" ->
                [exc |-> NoExc,
                 lookup |-> FieldLookup("ManyToManyField", "related_name",
                                "to" :> fix_self(ft.name))]
          [] ft.form = "OneToMany" ->
                [exc |-> NoExc,
                 lookup |-> FieldLookup("OneToManyFieldStandIn", "related_name",
                                "to" :> fix_self(ft.name))]
          [] ft.form = "GenericManager" /\ ft.name = "Any" ->
                [exc |-> NotImplementedError, lookup |-> NoLookup]
          [] is_annotated_type -> AnnotatedLookup(ft.name)
          [] OTHER ->
                [exc |-> NoExc,
                 lookup |-> IF plain \in LookupTypes THEN types_to_fields(plain)
                            ELSE NoLookup]

\* isinstance(value, models.ForeignObject)
IsForeignObject(value) ==
    value.t = "field" /\ value.cls \in {"ForeignObject", "ForeignKey", "OneToOneField"}

\* bool(value) of a class dictionary value that is no str.
Truthy(value) ==
    CASE value.t = "absent" -> FALSE
      [] value.t = "object" -> value.truthy
      [] OTHER -> TRUE

\* "field_object is OneToManyFieldStandIn": field_object is an instance, and
\* an instance is never the class object itself.
IsTheStandInClass(field_object) == FALSE

\* The state of TypedModelBase.__new__ between two attributes: the registry,
\* the class dictionary and the exception that ended the loop, if any.
LoopState(reg, dct, exc) == [reg |-> reg, dct |-> dct, exc |-> exc]

\* dct[variable] = value and del dct[variable]
SetEntry(dct, variable, value) ==
    [v \in DOMAIN dct \cup {variable} |-> IF v = variable THEN value ELSE dct[v]]
DelEntry(dct, variable) ==
    [v \in DOMAIN dct \ {variable} |-> dct[v]]

\* Lines 312-328 of __new__ without the test of registered.reverse_created.
StoreFieldKeepsReverse(st, variable, field_object, r) ==
    IF IsTheStandInClass(field_object)
    THEN LoopState(r.reg, DelEntry(st.dct, variable), NoExc)
    ELSE LoopState(r.reg, SetEntry(st.dct, variable, field_object), NoExc)

\* Lines 312-328 of __new__: the field object, or nothing when it is
\* nullified, becomes the entry of the class dictionary.
StoreField(st, variable, field_object, r) ==
    IF \/ field_object.cls \in {"ManyToManyField", "OneToOneField"} /\ r.reverse_created
       \/ IsTheStandInClass(field_object)
    THEN LoopState(r.reg, DelEntry(st.dct, variable), NoExc)
    ELSE LoopState(r.reg, SetEntry(st.dct, variable, field_object), NoExc)

\* Lines 294-328 of __new__ without the raise for a type that has no lookup:
\* the attribute is passed over.
BuildFieldSkipsUnknown(st, name, variable, field_type, default, null) ==
    LET found == get_django_lookup(field_type)
    IN  IF found.exc # NoExc THEN LoopState(st.reg, st.dct, found.exc)
        ELSE IF found.lookup = NoLookup THEN st
        ELSE LET field_object == item(found.lookup, default, null)
             IN  IF field_object.cls \in {"OneToManyFieldStandIn", "ForeignKey",
                                          "ManyToManyField", "OneToOneField"}
                 THEN LET r == register_field_object(st.reg, name, variable, field_object)
                      IN  IF r.exc # NoExc THEN LoopState(r.reg, st.dct, r.exc)
                          ELSE StoreField(st, variable, field_object, r)
                 ELSE LoopState(st.reg, SetEntry(st.dct, variable, field_object), NoExc)

\* Lines 294-328 of __new__: the field for field_type is built, registered
\* if it is a relation, and stored.
BuildField(st, name, variable, field_type, default, null) ==
    LET found == get_django_lookup(field_type)
    IN  IF found.exc # NoExc THEN LoopState(st.reg, st.dct, found.exc)
        ELSE IF found.lookup = NoLookup THEN LoopState(st.reg, st.dct, ValueError)
        ELSE LET field_object == item(found.lookup, default, null)
             IN  IF field_object.cls \in {"OneToManyFieldStandIn", "ForeignKey",
                                          "ManyToManyField", "OneToOneField"}
                 THEN LET r == register_field_object(st.reg, name, variable, field_object)
                      IN  IF r.exc # NoExc THEN LoopState(r.reg, st.dct, r.exc)
                          ELSE StoreField(st, variable, field_object, r)
                 ELSE LoopState(st.reg, SetEntry(st.dct, variable, field_object), NoExc)

\* One pass of the loop of __new__ (lines 257-328) for the attribute d of
\* the class called name.
ProcessAttribute(st, name, d) ==
    LET variable == Text(d.variable)
        default_or_value ==
            IF variable \in DOMAIN st.dct THEN st.dct[variable] ELSE Absent
        default == IF default_or_value.t = "str" THEN default_or_value.s ELSE None
    IN  IF ~is_snake_case(d.variable) THEN st
        ELSE IF default_or_value.t # "str" /\ IsForeignObject(default_or_value)
        THEN LET r == register_field_object(st.reg, name, variable, default_or_value)
             IN  LoopState(r.reg, st.dct, r.exc)
        ELSE IF default_or_value.t # "str" /\ Truthy(default_or_value) THEN st
        ELSE IF d.annotation.form = "union"
        THEN IF Cardinality(d.annotation.members) = 1
             THEN BuildField(st, name, variable,
                             CHOOSE m \in d.annotation.members : TRUE,
                             default, d.annotation.none)
             ELSE LoopState(st.reg, st.dct, ValueError)
        ELSE BuildField(st, name, variable, d.annotation, default, FALSE)

\* The loop of __new__ from attribute i on; an exception ends it.
RECURSIVE ProcessAttributes(_, _, _, _)
ProcessAttributes(st, name, body, i) ==
    IF i > Len(body) \/ st.exc # NoExc THEN st
    ELSE ProcessAttributes(ProcessAttribute(st, name, body[i]), name, body, i + 1)

\* The class dictionary a class body hands to the metaclass: the assigned
\* values by attribute name.
BodyDict(body) ==
    LET assigned == {i \in 1..Len(body) : body[i].value # Absent}
    IN  [v \in {Text(body[i].variable) : i \in assigned} |->
            (CHOOSE i \in assigned : Text(body[i].variable) = v) ]

\* The Meta class built from the keyword arguments of the class statement.
MetaOf(kwargs) == [t |-> "Meta", options |-> kwargs]

\* Lines 330-331 of __new__ that build a Meta in any case.
WithMetaAlways(dct, kwargs) ==
    SetEntry(dct, "Meta", MetaOf(kwargs))

\* Lines 330-331 of __new__: keyword arguments become dct["Meta"].
WithMeta(dct, kwargs) ==
    IF DOMAIN kwargs # {} THEN SetEntry(dct, "Meta", MetaOf(kwargs)) ELSE dct

\* TypedModelBase.__new__(cls, name, bases, dct, **kwargs) up to the call of
\* super().__new__: the registry, the class dictionary and the exception.
TypedModelBaseNew(reg, name, body, kwargs) ==
    LET dct0 == [v \in DOMAIN BodyDict(body) |-> body[BodyDict(body)[v]].value]
        st == ProcessAttributes(LoopState(reg, dct0, NoExc), name, body, 1)
    IN  IF st.exc # NoExc THEN st
        ELSE LoopState(st.reg, WithMeta(st.dct, kwargs), NoExc)

\* cls._meta.abstract, which the framework reads off the Meta of the class.
IsAbstract(dct) ==
    /\ "Meta" \in DOMAIN dct
    /\ dct["Meta"].t = "Meta"
    /\ "abstract" \in DOMAIN dct["Meta"].options
    /\ dct["Meta"].options["abstract"] = "True"

(***************************************************************************)
(* checks.py: reverse_foreign_key_warning                                  *)
(***************************************************************************)
\* An entry of apps.all_models: a model class of an application, and whether
\* it is a subclass of TypedModel.
ModelEntry(app, name, typed) == [app |-> app, name |-> name, typed |-> typed]

\* apps.all_models[app][name] = model: a model of the same name replaces the
\* entry of the application.
RegisterModel(models, app, name, typed) ==
    {e \in models : ~(e.app = app /\ e.name = name)}
        \cup {ModelEntry(app, name, typed)}

\* The Warning for the unresolved relationship ir found for a model of the
\* application app_label: its id, the parts of its hint and of its obj.
Warning(app_label, ir) ==
    [id |-> "freeform.W001",
     hint |-> [model |-> ir[3], field |-> ir[5], mode |-> flip_mode(ir[1]),
               to |-> ir[2], related |-> ir[4]],
     obj |-> <<app_label, ir[2], ir[4]>>]

\* reverse_foreign_key_warning: the list of warnings (no two of its entries
\* are equal, so a set), or the exception of ir.reverse_mode() on a
\* relationship whose mode flip_mode does not know.
reverse_foreign_key_warning(reg, models) ==
    LET typed == {e \in models : e.typed}
        found == UNION {{<<e.app, ir>> : ir \in check_model_valid(reg, e.name)} :
                            e \in typed}
    IN  IF \E f \in found : flip_mode(f[2][1]) = ValueError
        THEN [exc |-> ValueError, errors |-> {}]
        ELSE [exc |-> NoExc, errors |-> {Warning(f[1], f[2]) : f \in found}]

(***************************************************************************)
(* Inputs of the model.                                                    *)
(***************************************************************************)
UnknownMode == "Bogus"
\* <<modelA, modelB>> of a call: both directions between two models, and a
\* model related to itself.
ModelPairs == {<<"A", "B">>, <<"B", "A">>, <<"A", "A">>}
\* <<fieldA, fieldB>> of a constructor call; "a_set" is the name inferred
\* for a relationship declared on model A without a related name.
FieldPairs == {<<"x", "x">>, <<"a_set", "x">>, <<"x", None>>}
StrModes == {ModeStr(s) : s \in valid_mode \cup {UnknownMode}}
FieldClasses ==
    {"ForeignKey", "OneToOneField", "ManyToManyField", "OneToManyFieldStandIn",
     "CharField"}

\* Attribute names: snake case and not.
VarX == <<"x">>
VarName == <<"n", "a", "m", "e">>
VarConst == <<"M", "A", "X">>

\* x: <Relation>[<Model>] with and without = related("x")
RelationDecls ==
    {Decl(VarX, AnnRelated(m, t), v) :
        m \in valid_mode, t \in Models, v \in {Absent, StrVal("x")}}

\* name: <type> with no value, a str or another object
PlainDecls ==
    {Decl(VarName, AnnClass(t), v) :
        t \in {"str", "int", "complex"}, v \in {Absent, StrVal("hello")}}
    \cup {Decl(VarName, AnnUnion({AnnClass(t)}, TRUE), v) :
        t \in {"str", "complex"}, v \in {Absent, StrVal("hello")}}
    \cup {Decl(VarName, AnnClass("str"), StrVal("")),
          Decl(VarName, AnnClass("int"), ObjVal(TRUE)),
          Decl(VarName, AnnClass("complex"), ObjVal(FALSE)),
          Decl(VarName, AnnUnion({AnnClass("int"), AnnClass("str")}, FALSE), Absent),
          Decl(VarName, AnnRelated("GenericManager", "Any"), Absent),
          Decl(VarName, AnnAlias("list"), Absent),
          Decl(VarName, AnnAnnotated("text"), Absent),
          Decl(VarName, AnnAnnotated("other"), Absent)}

\* Constants and hand-written fields
OtherDecls ==
    {Decl(VarConst, AnnClass("int"), ObjVal(TRUE)),
     Decl(VarConst, AnnClass("complex"), Absent),
     Decl(VarConst, AnnRelated(MANY_TO_ONE, "B"), Absent),
     Decl(VarX, AnnModel("B"), FieldObject("ForeignKey", "B", "x")),
     Decl(VarX, AnnModel("B"), FieldObject("OneToOneField", "B", "x")),
     Decl(VarX, AnnClass("str"), Field("CharField", "max_length" :> "10"))}

\* Class bodies: no attribute, one attribute, or an attribute called name
\* followed by one called x or MAX.
Bodies ==
    {<< >>}
    \cup {<<d>> : d \in RelationDecls \cup PlainDecls \cup OtherDecls}
    \cup {<<d1, d2>> :
            d1 \in {Decl(VarName, AnnRelated("GenericManager", "Any"), Absent),
                    Decl(VarName, AnnClass("str"), Absent)},
            d2 \in {Decl(VarX, AnnClass("complex"), Absent),
                    Decl(VarX, AnnRelated(MANY_TO_MANY, "B"), StrVal("x"))}}

KwargSets == {NoKwargs, "abstract" :> "True", "db_table" :> "t"}
Apps == {"app", "other"}

\* <<body, kwargs>> of a class statement: every body without keyword
\* arguments, and three bodies with each of the keyword arguments.
ClassStatements ==
    {<<body, NoKwargs>> : body \in Bodies}
    \cup {<<body, kwargs>> :
            body \in {<< >>,
                      <<Decl(VarName, AnnClass("str"), StrVal("hello"))>>,
                      <<Decl(VarX, AnnRelated(MANY_TO_MANY, "B"), StrVal("x"))>>},
            kwargs \in KwargSets \ {NoKwargs}}

Init ==
    /\ registry = << >>
    /\ all_models = {}
    /\ classes = << >>
    /\ errors = {}
    /\ last = [op |-> "start", exc |-> NoExc, key |-> NoKey, mode |-> None]
    /\ ncalls = 0
    /\ nclasses = 0

\* A direct constructor call ForeignRegistry(mode, modelA, modelB, fieldA, fieldB).
Register(mode, modelA, modelB, fieldA, fieldB) ==
    /\ ncalls < MaxCalls
    /\ \E r \in {ForeignRegistryInit(registry, mode, modelA, modelB, fieldA, fieldB)} :
           /\ registry' = r.reg
           /\ last' = [op |-> "init", exc |-> r.exc, key |-> r.key, mode |-> r.mode,
                       arg |-> mode, fieldB |-> fieldB]
    /\ ncalls' = ncalls + 1
    /\ UNCHANGED <<all_models, classes, errors, nclasses>>

\* A direct call ForeignRegistry.register_field_object(model_name, field_name, field).
RegisterFieldObject(model_name, field_name, field) ==
    /\ ncalls < MaxCalls
    /\ \E r \in {register_field_object(registry, model_name, field_name, field)} :
           /\ registry' = r.reg
           /\ last' = [op |-> "register_field_object", exc |-> r.exc, key |-> r.key,
                       mode |-> r.mode, arg |-> [tag |-> "field", name |-> field.cls],
                       fieldB |-> RemoteRelatedName(field)]
    /\ ncalls' = ncalls + 1
    /\ UNCHANGED <<all_models, classes, errors, nclasses>>

\* A class statement "class name(TypedModel, **kwargs): body" in the
\* application app: the metaclass runs, then the framework creates the class
\* and, unless it is abstract, enters it in apps.all_models.
DefineClass(app, name, body, kwargs) ==
    /\ nclasses < MaxClasses
    /\ \E st \in {TypedModelBaseNew(registry, name, body, kwargs)} :
           /\ registry' = st.reg
           /\ classes' = IF st.exc = NoExc
                         THEN SetEntry(classes, name,
                                       [annotations |-> body, dct |-> st.dct])
                         ELSE classes
           /\ all_models' = IF st.exc = NoExc /\ ~IsAbstract(st.dct)
                            THEN RegisterModel(all_models, app, name, TRUE)
                            ELSE all_models
           /\ last' = [op |-> "class", exc |-> st.exc, name |-> name, body |-> body,
                       kwargs |-> kwargs]
    /\ nclasses' = nclasses + 1
    /\ UNCHANGED <<errors, ncalls>>

\* A class statement "class name(models.Model)" in the application app: a
\* model that is no TypedModel; the metaclass of this package does not run.
DefinePlainModel(app, name) ==
    /\ nclasses < MaxClasses
    /\ all_models' = RegisterModel(all_models, app, name, FALSE)
    /\ last' = [op |-> "model", exc |-> NoExc, name |-> name]
    /\ nclasses' = nclasses + 1
    /\ UNCHANGED <<registry, classes, errors, ncalls>>

\* The framework runs the registered check reverse_foreign_key_warning.
ReadinessCheck ==
    /\ \E r \in {reverse_foreign_key_warning(registry, all_models)} :
           /\ errors' = IF r.exc = NoExc THEN r.errors ELSE errors
           /\ last' = [op |-> "check", exc |-> r.exc]
    /\ UNCHANGED <<registry, all_models, classes, ncalls, nclasses>>

Next ==
    \/ \E mode \in StrModes, mp \in ModelPairs, fp \in FieldPairs :
           Register(mode, mp[1], mp[2], fp[1], fp[2])
    \/ \E cls \in FieldClasses, mp \in ModelPairs :
           RegisterFieldObject(mp[1], "x", FieldObject(cls, mp[2], "x"))

Spec == Init /\ [][Next]_vars

NextMeta ==
    \E name \in Models, cs \in ClassStatements :
        DefineClass("app", name, cs[1], cs[2])

SpecMeta == Init /\ [][NextMeta]_vars

NextChecks ==
    \/ \E mode \in StrModes, mp \in ModelPairs :
           Register(mode, mp[1], mp[2], "x", "x")
    \/ \E app \in Apps, name \in Models, kwargs \in KwargSets :
           DefineClass(app, name, << >>, kwargs)
    \/ \E app \in Apps, name \in Models : DefinePlainModel(app, name)
    \/ ReadinessCheck

SpecChecks == Init /\ [][NextChecks]_vars

\* The two ways to register the relationship of a field: the constructor
\* called with the field's class as mode, and register_field_object called
\* with the field.
NextModes ==
    \/ \E cls \in FieldClasses, mp \in ModelPairs :
           Register(ModeType(cls), mp[1], mp[2], "x", "x")
    \/ \E cls \in FieldClasses, mp \in ModelPairs :
           RegisterFieldObject(mp[1], "x", FieldObject(cls, mp[2], "x"))

SpecModes == Init /\ [][NextModes]_vars

\* <<fieldA, fieldB>> of declarations without a related name, and of the
\* declarations on the other model under the names inferred for model A.
InferFieldPairs == {<<"x", None>>, <<"a_set", "x">>, <<"a", "x">>, <<"x", "x">>}

NextInfer ==
    \E mode \in valid_mode, mp \in {<<"A", "B">>, <<"B", "A">>}, fp \in InferFieldPairs :
        Register(ModeStr(mode), mp[1], mp[2], fp[1], fp[2])

SpecInfer == Init /\ [][NextInfer]_vars

(***************************************************************************)
(* Properties.                                                             *)
(***************************************************************************)
\* The reverse of a mode and of a key, as the claims state them.
Flip(mode) ==
    CASE mode = "OneToOne" -> "OneToOne"
      [] mode = "ManyToOne" -> "OneToMany"
      [] mode = "OneToMany" -> "ManyToOne"
      [] mode = "ManyToMany" -> "ManyToMany"
      [] OTHER -> mode

ReverseOf(k) == <<Flip(k[1]), k[3], k[2], k[5], k[4]>>

\* C1: whenever a relationship with a valid mode and the relationship with
\* the flipped key are both in the registry (registered in either order),
\* both have reverse_created = True, and neither is returned by
\* all_relationships_resolved() or by check_model_valid(model) for any model.
C1_ReversePairing ==
    \A k \in DOMAIN registry :
        (k[1] \in valid_mode /\ ReverseOf(k) \in DOMAIN registry) =>
            /\ registry[k] = TRUE
            /\ registry[ReverseOf(k)] = TRUE
            /\ k \notin all_relationships_resolved(registry)
            /\ \A m \in Models : k \notin check_model_valid(registry, m)

\* C1 witness: a ManyToOne relationship and its OneToMany reverse, registered
\* once each without error, both resolved.
C1_Witness ==
    /\ ncalls = 2
    /\ last.exc = NoExc
    /\ \E k \in DOMAIN registry :
           /\ k[1] = MANY_TO_ONE
           /\ DOMAIN registry = {k, ReverseOf(k)}
           /\ registry[k] /\ registry[ReverseOf(k)]

\* The stored objects whose reverse key is the key f and that are unresolved.
UnresolvedReversesOf(f) ==
    {g \in DOMAIN registry :
        /\ g[1] \in valid_mode
        /\ get_reverse_key(Rel(g[1], g[2], g[3], g[4], g[5])) = f
        /\ registry[g] = FALSE}

OtherPossibleReverse(g, f) ==
    /\ g[1] = Flip(f[1])
    /\ g[2] = f[3]
    /\ g[3] = f[2]
    /\ g[5] = f[4]
    /\ g[4] # f[5]

\* C3: when a forward relationship already has its reverse in the registry
\* and a second, different declaration that could also serve as its reverse
\* is registered, the constructor raises ValueError.
C3_AmbiguousReverseRaises ==
    \A f \in DOMAIN registry :
        ( /\ last.op = "init"
          /\ last.key # NoKey
          /\ f[1] \in valid_mode
          /\ ReverseOf(f) \in DOMAIN registry
          /\ ReverseOf(f) # f
          /\ OtherPossibleReverse(last.key, f) ) => last.exc = ValueError

\* The relationship the warning w asks for, as a registry key.
HintKey(w) ==
    <<w.hint.mode, w.hint.model, w.hint.to, w.hint.field, w.hint.related>>

\* The class names of the registered TypedModel subclasses.
TypedModelNames == {e.name : e \in {m \in all_models : m.typed}}

\* C4: whenever the readiness check has run, it has not raised; it returned
\* exactly one warning, with id freeform.W001, for every record that is
\* unresolved and whose modelB names a registered TypedModel subclass, and no
\* warning for any other record; and registering the declaration a warning's
\* hint describes resolves the record the warning is about.
C4_WarningsForMissingReverses ==
    last.op = "check" =>
        /\ last.exc = NoExc
        /\ \A w \in errors : ReverseOf(HintKey(w)) \in DOMAIN registry
        /\ \A k \in DOMAIN registry :
               LET ws == {w \in errors : ReverseOf(HintKey(w)) = k}
               IN  IF registry[k] = FALSE /\ k[3] \in TypedModelNames
                   THEN /\ Cardinality(ws) = 1
                        /\ \A w \in ws :
                               /\ w.id = "freeform.W001"
                               /\ LET h == HintKey(w)
                                       r == ForeignRegistryInit(registry, ModeStr(h[1]),
                                                                h[2], h[3], h[4], h[5])
                                   IN  r.exc = NoExc /\ r.reg[k] = TRUE
                   ELSE ws = {}

\* The declarations of the created class c.
DeclsOf(c) ==
    {classes[c].annotations[i] : i \in 1..Len(classes[c].annotations)}

\* The class dictionary of the created class c holds a field for d.
HasConcreteField(c, d) ==
    /\ Text(d.variable) \in DOMAIN classes[c].dct
    /\ classes[c].dct[Text(d.variable)].t = "field"

\* da in class a and db in class b declare the two sides of one ManyToMany
\* or OneToOne relationship: each names the other class and, as its related
\* name, the other attribute.
InvertedPair(a, da, b, db) ==
    /\ da.annotation.form \in {MANY_TO_MANY, ONE_TO_ONE}
    /\ db.annotation.form = da.annotation.form
    /\ da.annotation.name = b
    /\ db.annotation.name = a
    /\ da.value = StrVal(Text(db.variable))
    /\ db.value = StrVal(Text(da.variable))
    /\ <<a, da.variable>> # <<b, db.variable>>

\* C5: of the two created classes that declare an inverted ManyToMany or
\* OneToOne pair exactly one holds a concrete field for its side; the class
\* defined second is the one whose attribute is removed and the class defined
\* first keeps its field; and a ManyToOne attribute always keeps its
\* ForeignKey.
C5_SecondSideIsPassive ==
    /\ \A a \in DOMAIN classes, b \in DOMAIN classes :
           \A da \in DeclsOf(a), db \in DeclsOf(b) :
               InvertedPair(a, da, b, db) =>
                   /\ HasConcreteField(a, da) # HasConcreteField(b, db)
                   /\ (last.op = "class" /\ last.exc = NoExc /\ last.name = b /\ a # b)
                          => ( /\ Text(db.variable) \notin DOMAIN classes[b].dct
                               /\ HasConcreteField(a, da)
                               /\ classes[a].dct[Text(da.variable)].cls \in
                                      {"ManyToManyField", "OneToOneField"} )
    /\ \A c \in DOMAIN classes :
           \A d \in DeclsOf(c) :
               ( /\ d.annotation.form = MANY_TO_ONE
                 /\ is_snake_case(d.variable)
                 /\ d.value.t \in {"absent", "str"} ) =>
                   /\ HasConcreteField(c, d)
                   /\ classes[c].dct[Text(d.variable)].cls = "ForeignKey"

\* C5 witness: A and B declare an inverted ManyToMany pair, B was defined
\* second and lost its attribute, A holds its ManyToManyField.
C5_Witness ==
    /\ last.op = "class" /\ last.exc = NoExc /\ last.name = "B"
    /\ DOMAIN classes = {"A", "B"}
    /\ \E da \in DeclsOf("A"), db \in DeclsOf("B") :
           /\ InvertedPair("A", da, "B", db)
           /\ da.annotation.form = MANY_TO_MANY
           /\ HasConcreteField("A", da)
           /\ Text(db.variable) \notin DOMAIN classes["B"].dct

\* C6: for every created class and every snake-case attribute annotated
\* OneToMany[Model], the registry holds the OneToMany relationship of the
\* attribute and the class dictionary holds no value under its name.
C6_OneToManyIsNullified ==
    \A c \in DOMAIN classes :
        \A d \in DeclsOf(c) :
            ( /\ d.annotation.form = ONE_TO_MANY
              /\ is_snake_case(d.variable)
              /\ d.value.t \in {"absent", "str"} ) =>
                /\ \E k \in DOMAIN registry :
                       /\ k[1] = ONE_TO_MANY /\ k[2] = c
                       /\ k[3] = d.annotation.name /\ k[4] = Text(d.variable)
                /\ Text(d.variable) \notin DOMAIN classes[c].dct

\* The annotation with None stripped from a union of None and one type.
StripNone(annotation) ==
    IF annotation.form = "union" /\ Cardinality(annotation.members) = 1
    THEN CHOOSE m \in annotation.members : TRUE
    ELSE annotation

\* The option key of the field f is set, to value.
HasOption(f, key, value) == key \in DOMAIN f.kwargs /\ f.kwargs[key] = value

\* C7: for every created class and every snake-case attribute with no value
\* or a string value whose type, None stripped, is str or int, the class
\* dictionary holds a CharField with max_length 255 or an IntegerField, with
\* null set exactly when the annotation is a union with None, with the
\* assigned string as default exactly when that string is non-empty, and
\* with every default option of the lookup table.
C7_GeneratedFieldMatchesHandWritten ==
    \A c \in DOMAIN classes :
        \A d \in DeclsOf(c) :
            ( /\ is_snake_case(d.variable)
              /\ d.value.t \in {"absent", "str"}
              /\ StripNone(d.annotation).form = "class"
              /\ StripNone(d.annotation).name \in {"str", "int"} ) =>
                /\ HasConcreteField(c, d)
                /\ LET f == classes[c].dct[Text(d.variable)]
                       type == StripNone(d.annotation).name
                       nullable == d.annotation.form = "union" /\ d.annotation.none
                       given == d.value.t = "str" /\ d.value.s # ""
                   IN  /\ type = "str" => f.cls = "CharField" /\ HasOption(f, "max_length", "255")
                       /\ type = "int" => f.cls = "IntegerField"
                       /\ ("null" \in DOMAIN f.kwargs) <=> nullable
                       /\ nullable => HasOption(f, "null", "True")
                       /\ ("default" \in DOMAIN f.kwargs) <=> given
                       /\ given => HasOption(f, "default", d.value.s)
                       /\ \A key \in DOMAIN types_to_fields(type).default_kwargs :
                              HasOption(f, key, types_to_fields(type).default_kwargs[key])

\* C7 witness: a created class with "name: str | None" and the default "hello".
C7_Witness ==
    \E c \in DOMAIN classes :
        \E d \in DeclsOf(c) :
            /\ d.annotation = AnnUnion({AnnClass("str")}, TRUE)
            /\ d.value = StrVal("hello")
            /\ HasConcreteField(c, d)
            /\ HasOption(classes[c].dct[Text(d.variable)], "default", "hello")

\* C8: after a class statement that created a class, its class dictionary
\* has a Meta exactly when keyword arguments were given, and that Meta holds
\* the keyword arguments; with abstract=True the class is abstract; without
\* keyword arguments it is not abstract and is a registered model.
C8_KwargsBecomeMeta ==
    (last.op = "class" /\ last.exc = NoExc) =>
        LET dct == classes[last.name].dct
        IN  /\ ("Meta" \in DOMAIN dct) <=> (DOMAIN last.kwargs # {})
            /\ ("Meta" \in DOMAIN dct) => dct["Meta"] = MetaOf(last.kwargs)
            /\ HasOption([kwargs |-> last.kwargs], "abstract", "True") =>
                   IsAbstract(dct)
            /\ (DOMAIN last.kwargs = {}) =>
                   /\ ~IsAbstract(dct)
                   /\ last.name \in TypedModelNames

\* C8 witness: a class declared with abstract=True has been created and is
\* abstract.
C8_Witness ==
    /\ last.op = "class" /\ last.exc = NoExc
    /\ HasOption([kwargs |-> last.kwargs], "abstract", "True")
    /\ IsAbstract(classes[last.name].dct)
    /\ last.name \notin TypedModelNames

\* d is a snake-case attribute with no value or a string value whose type,
\* None stripped, is a plain type without an entry in the lookup registry.
UnknownTypeAttr(d) ==
    /\ is_snake_case(d.variable)
    /\ d.value.t \in {"absent", "str"}
    /\ StripNone(d.annotation).form = "class"
    /\ StripNone(d.annotation).name \notin LookupTypes

\* d is a snake-case attribute annotated GenericManager[Any].
GenericManagerAttr(d) ==
    /\ is_snake_case(d.variable)
    /\ d.annotation = AnnRelated("GenericManager", "Any")

\* C9 as stated: a class statement with an attribute of an unknown type ends
\* in ValueError.
C9_UnknownTypeRaisesValueError ==
    (last.op = "class" /\ \E i \in 1..Len(last.body) : UnknownTypeAttr(last.body[i]))
        => last.exc = ValueError

\* C9: a class statement with an attribute of an unknown type ends in
\* ValueError, or in NotImplementedError when an earlier attribute is
\* annotated GenericManager[Any]; no class is created and no model is
\* registered.
C9_UnknownTypeRaises ==
    [][ (nclasses' = nclasses + 1 /\ last'.op = "class") =>
          \A i \in 1..Len(last'.body) :
              UnknownTypeAttr(last'.body[i]) =>
                  /\ \/ last'.exc = ValueError
                     \/ /\ last'.exc = NotImplementedError
                        /\ \E j \in 1..(i - 1) : GenericManagerAttr(last'.body[j])
                  /\ classes' = classes
                  /\ all_models' = all_models ]_vars

\* C9 witness: the class statement "class A: name: complex" has just raised
\* ValueError and there is no class A.
C9_Witness ==
    /\ last.op = "class"
    /\ last.exc = ValueError
    /\ \E i \in 1..Len(last.body) : UnknownTypeAttr(last.body[i])
    /\ last.name \notin DOMAIN classes

\* C10: a constructor call whose mode is none of the four modes ends in
\* ValueError, and so does register_field_object for a field object none of
\* whose cardinality flags is True.
C10_UnknownModeRaisesValueError ==
    (last.op \in {"init", "register_field_object"} /\ last.mode \notin valid_mode)
        => last.exc = ValueError

\* The reverse key the code computes for the record stored under k.
RKey(k) == get_reverse_key(Rel(k[1], k[2], k[3], k[4], k[5]))

\* C11: in every reachable registry, a stored record with a valid mode has
\* reverse_created = True if and only if a record is stored under its
\* reverse key, that record then has reverse_created = True as well, and
\* the reverse key of its reverse key is its own key.
C11_FlagsMatchRegistry ==
    \A k \in DOMAIN registry :
        k[1] \in valid_mode =>
            /\ (registry[k] = TRUE) <=> (RKey(k) \in DOMAIN registry)
            /\ RKey(k) \in DOMAIN registry => registry[RKey(k)] = TRUE
            /\ RKey(RKey(k)) = k

\* C11 witness: a call with a valid mode has just raised on a record that
\* is not its own reverse, and the registry holds that record and its
\* reverse, both resolved.
C11_Witness ==
    /\ last.op = "init"
    /\ last.exc = ValueError
    /\ last.mode \in valid_mode
    /\ last.key \in DOMAIN registry
    /\ RKey(last.key) # last.key
    /\ RKey(last.key) \in DOMAIN registry
    /\ registry[last.key] = TRUE /\ registry[RKey(last.key)] = TRUE

\* C12: a constructor call that raises leaves the registry as it was: the
\* same keys and the same reverse_created flags as before the call.
C12_FailedRegistrationHasNoEffect ==
    [][ ( /\ ncalls' = ncalls + 1
          /\ last'.op \in {"init", "register_field_object"}
          /\ last'.exc # NoExc ) => registry' = registry ]_vars

\* C13: a call with a valid mode whose key is already in the registry, and
\* is not its own reverse key, raises nothing and leaves the registry with
\* the same keys and the same reverse_created flags.
C13_RegistrationIsIdempotent ==
    [][ ( /\ ncalls' = ncalls + 1
          /\ last'.op = "init"
          /\ last'.key \in DOMAIN registry
          /\ last'.key[1] \in valid_mode
          /\ RKey(last'.key) # last'.key ) =>
            (last'.exc = NoExc /\ registry' = registry) ]_vars

\* The mode of each relationship field kind, as the claim lists them.
ExpectedMode(cls) ==
    CASE cls = "ForeignKey" -> "ManyToOne"
      [] cls = "OneToOneField" -> "OneToOne"
      [] cls = "ManyToManyField" -> "ManyToMany"
      [] cls = "OneToManyFieldStandIn" -> "OneToMany"

\* C14: for each of the four relationship field kinds, the constructor
\* called with the field class (field_type_to_mode) and
\* register_field_object called with a field of that class (cardinality
\* flags) settle on the same mode, the one listed for the kind.
C14_ModeDerivationsAgree ==
    ( /\ last.op \in {"init", "register_field_object"}
      /\ last.arg.tag \in {"type", "field"}
      /\ last.arg.name \in {"ForeignKey", "OneToOneField", "ManyToManyField",
                            "OneToManyFieldStandIn"} ) =>
        last.mode = ExpectedMode(last.arg.name)

\* The related name the claim gives a relationship of modelA declared
\* without one.
InferredName(mode, modelA) ==
    IF mode = "OneToOne" THEN Lower(modelA) ELSE Lower(modelA) \o "_set"

\* C15: every stored record with a valid mode has a fieldB; a call with a
\* valid mode and fieldB = None stores its record under the lower-cased
\* modelA for OneToOne and the lower-cased modelA plus "_set" for the other
\* modes; and a stored record is resolved exactly when the declaration on
\* modelB with field name fieldB and related name fieldA is stored.
C15_ReverseSideIsInferred ==
    /\ \A k \in DOMAIN registry :
           k[1] \in valid_mode =>
               /\ k[5] # None
               /\ (registry[k] = TRUE) <=> (ReverseOf(k) \in DOMAIN registry)
    /\ ( /\ last.op = "init"
         /\ last.mode \in valid_mode
         /\ last.fieldB = None ) =>
           /\ last.key \in DOMAIN registry
           /\ last.key[5] = InferredName(last.mode, last.key[2])

\* C15 witness: a OneToOne on A declared without a related name has just
\* been registered and is resolved by the declaration on B named "a".
C15_Witness ==
    /\ last.op = "init"
    /\ last.fieldB = None
    /\ last.mode = ONE_TO_ONE
    /\ last.key = <<ONE_TO_ONE, "A", "B", "x", "a">>
    /\ registry[last.key] = TRUE
    /\ <<ONE_TO_ONE, "B", "A", "a", "x">> \in DOMAIN registry

\* The name has a character that is no lowercase letter and no underscore.
HasOtherCharacter(variable) ==
    \E i \in 1..Len(variable) : variable[i] \notin LowerCaseLetters \cup {"_"}

\* d is an attribute the metaclass passes over: its name has a character
\* other than a lowercase letter or underscore, or its value is truthy and
\* neither a string nor a ForeignObject.
PassedOver(d) ==
    \/ HasOtherCharacter(d.variable)
    \/ d.value.t = "object" /\ d.value.truthy
    \/ d.value.t = "field" /\ d.value.cls \notin {"ForeignKey", "OneToOneField"}

\* d is a snake-case attribute assigned a hand-written ForeignObject.
HandWrittenRelation(d) ==
    /\ ~HasOtherCharacter(d.variable)
    /\ d.value.t = "field"
    /\ d.value.cls \in {"ForeignKey", "OneToOneField"}

\* The registry key of the hand-written relation d of the class called name.
HandWrittenKey(name, d) ==
    <<ExpectedMode(d.value.cls), name, d.value.kwargs["to"], Text(d.variable),
      d.value.kwargs["related_name"]>>

\* The class dictionary dct holds for d what the class body declared.
AsDeclared(dct, d) ==
    IF d.value = Absent THEN Text(d.variable) \notin DOMAIN dct
    ELSE Text(d.variable) \in DOMAIN dct /\ dct[Text(d.variable)] = d.value

\* C16: in every class statement, an attribute that is passed over adds no
\* relationship of its own to the registry and, when the class is created,
\* has its class dictionary entry as declared; a class statement with only
\* such attributes raises nothing and leaves the registry as it was; a
\* hand-written ForeignObject is registered under its key, stays unchanged
\* in the class dictionary of the created class, and resolves an unresolved
\* reverse without error, which a second registration would not.
C16_UntransformedAttributesKept ==
    [][ (nclasses' = nclasses + 1 /\ last'.op = "class") =>
          LET name == last'.name
              body == last'.body
              decls == {body[i] : i \in 1..Len(body)}
              added == DOMAIN registry' \ DOMAIN registry
          IN  /\ \A d \in decls :
                     PassedOver(d) =>
                         /\ \A k \in added : ~(k[2] = name /\ k[4] = Text(d.variable))
                         /\ last'.exc = NoExc => AsDeclared(classes'[name].dct, d)
              /\ (\A d \in decls : PassedOver(d)) =>
                     (last'.exc = NoExc /\ registry' = registry)
              /\ \A d \in decls :
                     HandWrittenRelation(d) =>
                         LET key == HandWrittenKey(name, d)
                         IN  /\ key \in DOMAIN registry'
                             /\ last'.exc = NoExc => AsDeclared(classes'[name].dct, d)
                             /\ ( /\ ReverseOf(key) \in DOMAIN registry
                                  /\ registry[ReverseOf(key)] = FALSE ) =>
                                    /\ last'.exc = NoExc
                                    /\ registry'[key] = TRUE
                                    /\ registry'[ReverseOf(key)] = TRUE
                                    /\ added \subseteq {key} ]_vars

\* C16 witness: a class with the hand-written ForeignKey x has been
\* created, holds the ForeignKey as declared, and the registration resolved
\* the OneToMany declared on the other side.
C16_Witness ==
    /\ last.op = "class"
    /\ last.exc = NoExc
    /\ \E i \in 1..Len(last.body) :
           /\ HandWrittenRelation(last.body[i])
           /\ last.body[i].value.cls = "ForeignKey"
           /\ AsDeclared(classes[last.name].dct, last.body[i])
           /\ registry[HandWrittenKey(last.name, last.body[i])] = TRUE
           /\ ReverseOf(HandWrittenKey(last.name, last.body[i])) \in DOMAIN registry

TypeOK == ncalls \in 0..MaxCalls
====
